---- MODULE Spec2Model ----
(***************************************************************************)
(* Model of src/main.py: the CommentQualityAnalyzer class (constructor,    *)
(* docstring helper and the three detectors) and the command line driver   *)
(* main().                                                                 *)
(*                                                                         *)
(* A file is the sequence of its physical lines, each line a string        *)
(* without its terminator (what text-mode read()/readlines() split on).    *)
(* The text operations of the code (strip, startswith, split, re.search,   *)
(* re.findall, `in`) are computed character by character; ast.parse is a   *)
(* recursive-descent parser of the subset of Python the checked files are  *)
(* written in (def / async def / class / if headers with an indented block *)
(* or an inline body, pass, string-literal and other simple statements,    *)
(* comment and blank lines); ast.dump is computed as the text it returns.  *)
(***************************************************************************)
EXTENDS Integers, Sequences, FiniteSets, TLC

VARIABLES
    file,        \* the target file on disk: [present, readable, lines]
    args,        \* the arguments: [valid, style_guide, state, content]
    analyzer,    \* the CommentQualityAnalyzer object, or NoAnalyzer
    last,        \* the last detector call on the analyzer and what it returned
    pc,          \* main(): position in the function
    locals,      \* main(): the local variables bound so far, by name
    printed,     \* main(): what has been written to stdout
    exit_code,   \* main(): the process exit code, -1 while running
    modified     \* whether the file was changed after the analyzer was built

vars == <<file, args, analyzer, last, pc, locals, printed, exit_code, modified>>

----------------------------------------------------------------------------
(* Text primitives (str methods and the two regular expressions).          *)

Char(s, i) == SubSeq(s, i, i)

Whitespace == {" ", "\t", "\n", "\r"}

WordChars ==
    {"a","b","c","d","e","f","g","h","i","j","k","l","m","n","o","p","q","r",
     "s","t","u","v","w","x","y","z","A","B","C","D","E","F","G","H","I","J",
     "K","L","M","N","O","P","Q","R","S","T","U","V","W","X","Y","Z",
     "0","1","2","3","4","5","6","7","8","9","_"}

RECURSIVE LeadingSpaces(_, _)
\* number of whitespace characters at the start of s, counting from index i
LeadingSpaces(s, i) ==
    IF i > Len(s) \/ Char(s, i) \notin Whitespace THEN i - 1
    ELSE LeadingSpaces(s, i + 1)

RECURSIVE LastNonSpace(_, _)
\* index of the last non-whitespace character of s at or before i (0: none)
LastNonSpace(s, i) ==
    IF i = 0 \/ Char(s, i) \notin Whitespace THEN i
    ELSE LastNonSpace(s, i - 1)

\* str.rstrip()
RStrip(s) == SubSeq(s, 1, LastNonSpace(s, Len(s)))

\* str.lstrip()
LStrip(s) == SubSeq(s, LeadingSpaces(s, 1) + 1, Len(s))

\* str.strip()
Strip(s) == LStrip(RStrip(s))

\* str.startswith(p)
StartsWith(s, p) == Len(s) >= Len(p) /\ SubSeq(s, 1, Len(p)) = p

\* str.endswith(p)
EndsWith(s, p) == Len(s) >= Len(p) /\ SubSeq(s, Len(s) - Len(p) + 1, Len(s)) = p

RECURSIVE FindFrom(_, _, _)
\* str.find(p, i-1) + 1: the first index >= i where p occurs in s, 0 if none
FindFrom(s, p, i) ==
    IF i + Len(p) - 1 > Len(s) THEN 0
    ELSE IF SubSeq(s, i, i + Len(p) - 1) = p THEN i
    ELSE FindFrom(s, p, i + 1)

\* p in s
Contains(s, p) == FindFrom(s, p, 1) # 0

\* s.split(sep, 1)[1] for a one-character sep that occurs in s
AfterFirst(s, sep) == SubSeq(s, FindFrom(s, sep, 1) + 1, Len(s))

\* s.split(sep, 1)[0]
BeforeFirst(s, sep) ==
    IF Contains(s, sep) THEN SubSeq(s, 1, FindFrom(s, sep, 1) - 1) ELSE s

RECURSIVE WordEnd(_, _)
\* index of the last character of the word that starts at i
WordEnd(s, i) ==
    IF i + 1 <= Len(s) /\ Char(s, i + 1) \in WordChars THEN WordEnd(s, i + 1)
    ELSE i

RECURSIVE FindAllWords(_, _)
\* re.findall(r'\b\w+\b', s): the maximal runs of word characters, in order
FindAllWords(s, i) ==
    IF i > Len(s) THEN <<>>
    ELSE IF Char(s, i) \in WordChars
         THEN <<SubSeq(s, i, WordEnd(s, i))>> \o FindAllWords(s, WordEnd(s, i) + 1)
         ELSE FindAllWords(s, i + 1)

RECURSIVE SplitOn(_, _)
\* s.split(sep) for a separator that is not empty
SplitOn(s, sep) ==
    IF Contains(s, sep)
    THEN <<SubSeq(s, 1, FindFrom(s, sep, 1) - 1)>>
         \o SplitOn(SubSeq(s, FindFrom(s, sep, 1) + Len(sep), Len(s)), sep)
    ELSE <<s>>

----------------------------------------------------------------------------
(* ast.parse (src/main.py:33) for the subset of Python described above.    *)
(* A node is [type, lineno, name, value, test, body]; an expression is     *)
(* [type |-> "Name", id] or [type |-> "BoolOp", values].                   *)

Digits == {"0","1","2","3","4","5","6","7","8","9"}

Keywords == {"pass", "if", "def", "class", "async", "and", "else", "elif"}

SyntaxError == [ok |-> FALSE, body |-> <<>>, next |-> 0]

Node(type, lineno, name, value, test, body) ==
    [type |-> type, lineno |-> lineno, name |-> name, value |-> value,
     test |-> test, body |-> body]

NoExpr == [type |-> "None"]

\* the value of an expression statement: ast.Constant of a str or an int, or
\* another expression; NoValue for a statement that has none
Constant(kind, v) == [type |-> "Constant", kind |-> kind, value |-> v]

OtherExpr(v) == [type |-> "Other", kind |-> "", value |-> v]

NoValue == [type |-> "None", kind |-> "", value |-> ""]

RECURSIVE CommentStart(_, _, _)
\* index of the '#' that starts the comment of a line (0: none); a '#' inside
\* a double-quoted string literal does not start one
CommentStart(s, i, inStr) ==
    IF i > Len(s) THEN 0
    ELSE IF Char(s, i) = "\"" THEN CommentStart(s, i + 1, ~inStr)
    ELSE IF Char(s, i) = "#" /\ ~inStr THEN i
    ELSE CommentStart(s, i + 1, inStr)

\* the code of a physical line: the line without its comment, trimmed
Code(line) ==
    Strip(IF CommentStart(line, 1, FALSE) = 0 THEN line
          ELSE SubSeq(line, 1, CommentStart(line, 1, FALSE) - 1))

\* column of the first character that is not a space
Indent(line) == LeadingSpaces(line, 1)

RECURSIVE NextCodeLine(_, _)
\* the first line at or after i that holds code (Len + 1: none); blank and
\* comment-only lines produce no token
NextCodeLine(lines, i) ==
    IF i > Len(lines) \/ Code(lines[i]) # "" THEN i
    ELSE NextCodeLine(lines, i + 1)

IsNumber(s) == s # "" /\ \A i \in 1..Len(s) : Char(s, i) \in Digits

IsName(s) ==
    /\ s # ""
    /\ \A i \in 1..Len(s) : Char(s, i) \in WordChars
    /\ Char(s, 1) \notin Digits
    /\ s \notin Keywords

IsStringLiteral(s) ==
    /\ Len(s) >= 2
    /\ Char(s, 1) = "\"" /\ Char(s, Len(s)) = "\""
    /\ ~Contains(SubSeq(s, 2, Len(s) - 1), "\"")

\* a sum of names, numbers and string literals: a + b + 1
IsSum(s) ==
    LET terms == SplitOn(s, " + ")
    IN  \A i \in 1..Len(terms) :
            IsName(terms[i]) \/ IsNumber(terms[i]) \/ IsStringLiteral(terms[i])

\* an expression statement or a (chained) assignment: t1 = t2 = a + 1
IsAssignOrExpr(s) ==
    LET parts == SplitOn(s, " = ")
    IN  /\ \A i \in 1..Len(parts) - 1 : IsName(parts[i])
        /\ IsSum(parts[Len(parts)])

\* one simple statement, parsed: pass, an expression statement or an assignment
SimpleStmt(s, lineno) ==
    IF s = "pass"
        THEN [ok |-> TRUE, node |-> Node("Pass", lineno, "", NoValue, NoExpr, <<>>)]
    ELSE IF IsStringLiteral(s)
        THEN [ok |-> TRUE,
              node |-> Node("Expr", lineno, "",
                            Constant("str", SubSeq(s, 2, Len(s) - 1)),
                            NoExpr, <<>>)]
    ELSE IF IsNumber(s)
        THEN [ok |-> TRUE,
              node |-> Node("Expr", lineno, "", Constant("int", s), NoExpr, <<>>)]
    ELSE IF IsAssignOrExpr(s)
        THEN [ok |-> TRUE,
              node |-> Node(IF Contains(s, " = ") THEN "Assign" ELSE "Expr",
                            lineno, "", OtherExpr(s), NoExpr, <<>>)]
    ELSE [ok |-> FALSE, node |-> Node("", 0, "", NoValue, NoExpr, <<>>)]

\* the simple statements of one logical line: s1; s2; s3
SimpleStmts(text, lineno) ==
    LET list   == IF EndsWith(text, ";") THEN SubSeq(text, 1, Len(text) - 1)
                  ELSE text             \* one trailing semicolon is allowed
        pieces == SplitOn(list, ";")
        stmts  == [i \in 1..Len(pieces) |-> SimpleStmt(Strip(pieces[i]), lineno)]
    IN  IF \A i \in 1..Len(stmts) : stmts[i].ok
        THEN [ok |-> TRUE, body |-> [i \in 1..Len(stmts) |-> stmts[i].node]]
        ELSE [ok |-> FALSE, body |-> <<>>]

\* the test of an if: a name, or names joined by `and`
ParseTest(s) ==
    LET names == SplitOn(s, " and ")
    IN  IF \E i \in 1..Len(names) : ~IsName(names[i])
        THEN [ok |-> FALSE, expr |-> NoExpr]
        ELSE IF Len(names) = 1
        THEN [ok |-> TRUE, expr |-> [type |-> "Name", id |-> names[1]]]
        ELSE [ok |-> TRUE,
              expr |-> [type |-> "BoolOp",
                        values |-> [i \in 1..Len(names) |->
                                      [type |-> "Name", id |-> names[i]]]]]

\* the header of a compound statement: [ok, type, name, test, inline], where
\* inline is the text after the colon; ok is FALSE for a line that is none
Header(text) ==
    LET bad == [ok |-> FALSE, type |-> "", name |-> "", test |-> NoExpr,
                inline |-> ""]
        def(type, rest) ==
            LET name == BeforeFirst(rest, "(")
                tail == SubSeq(rest, Len(name) + 1, Len(rest))
            IN  IF IsName(name) /\ StartsWith(tail, "():")
                THEN [ok |-> TRUE, type |-> type, name |-> name, test |-> NoExpr,
                      inline |-> Strip(SubSeq(tail, 4, Len(tail)))]
                ELSE bad
    IN  IF StartsWith(text, "async def ")
            THEN def("AsyncFunctionDef", SubSeq(text, 11, Len(text)))
        ELSE IF StartsWith(text, "def ")
            THEN def("FunctionDef", SubSeq(text, 5, Len(text)))
        ELSE IF StartsWith(text, "class ")
            THEN LET rest == SubSeq(text, 7, Len(text))
                     name == BeforeFirst(rest, ":")
                 IN  IF IsName(name) /\ Contains(rest, ":")
                     THEN [ok |-> TRUE, type |-> "ClassDef", name |-> name,
                           test |-> NoExpr, inline |-> Strip(AfterFirst(rest, ":"))]
                     ELSE bad
        ELSE IF StartsWith(text, "if ")
            THEN LET rest == SubSeq(text, 4, Len(text))
                     t == ParseTest(BeforeFirst(rest, ":"))
                 IN  IF t.ok /\ Contains(rest, ":")
                     THEN [ok |-> TRUE, type |-> "If", name |-> "",
                           test |-> t.expr, inline |-> Strip(AfterFirst(rest, ":"))]
                     ELSE bad
        ELSE bad

RECURSIVE ParseBlock(_, _, _)
\* the statements of the block indented by `indent` that starts at line i:
\* [ok, body, next], next the first code line after the block
ParseBlock(lines, i, indent) ==
    IF i > Len(lines) \/ Indent(lines[i]) < indent
        THEN [ok |-> TRUE, body |-> <<>>, next |-> i]
    ELSE IF Indent(lines[i]) > indent
        THEN SyntaxError                      \* unexpected indent
    ELSE
    LET text == Code(lines[i])
        h    == Header(text)
        j    == NextCodeLine(lines, i + 1)
        then(stmts, k) ==                     \* stmts, then the rest of the block
            LET rest == ParseBlock(lines, k, indent)
            IN  IF rest.ok
                THEN [ok |-> TRUE, body |-> stmts \o rest.body, next |-> rest.next]
                ELSE SyntaxError
    IN  IF h.ok /\ h.inline # ""
        THEN LET b == SimpleStmts(h.inline, i)
             IN  IF b.ok
                 THEN then(<<Node(h.type, i, h.name, NoValue, h.test, b.body)>>, j)
                 ELSE SyntaxError
        ELSE IF h.ok
        THEN IF j > Len(lines) \/ Indent(lines[j]) <= indent
             THEN SyntaxError                 \* expected an indented block
             ELSE LET blk == ParseBlock(lines, j, Indent(lines[j]))
                  IN  IF ~blk.ok THEN SyntaxError
                      ELSE IF blk.next <= Len(lines)
                              /\ Indent(lines[blk.next]) > indent
                      THEN SyntaxError        \* unindent matches no outer level
                      ELSE then(<<Node(h.type, i, h.name, NoValue, h.test, blk.body)>>,
                                blk.next)
        ELSE LET b == SimpleStmts(text, i)
             IN  IF b.ok THEN then(b.body, j) ELSE SyntaxError

\* ast.parse(source_code): [ok, tree]; ok is FALSE where it raises SyntaxError
Parse(lines) ==
    LET r == ParseBlock(lines, NextCodeLine(lines, 1), 0)
    IN  IF r.ok /\ r.next > Len(lines)
        THEN [ok |-> TRUE, tree |-> Node("Module", 0, "", NoValue, NoExpr, r.body)]
        ELSE [ok |-> FALSE, tree |-> Node("Module", 0, "", NoValue, NoExpr, <<>>)]

RECURSIVE Walk(_)
\* ast.walk: breadth first from the queue `todo`; only statement nodes are
\* listed (expression nodes are none of the kinds the detector looks at)
Walk(todo) ==
    IF todo = <<>> THEN <<>>
    ELSE <<Head(todo)>> \o Walk(Tail(todo) \o Head(todo).body)

RECURSIVE JoinDump(_, _)
\* ast.dump of the expressions from index i on, joined by ", "
JoinDump(values, i) ==
    IF i > Len(values) THEN ""
    ELSE ("Name(id='" \o values[i].id \o "', ctx=Load())")
         \o (IF i < Len(values) THEN ", " ELSE "")
         \o JoinDump(values, i + 1)

\* ast.dump(node.test)
Dump(expr) ==
    IF expr.type = "Name" THEN "Name(id='" \o expr.id \o "', ctx=Load())"
    ELSE IF expr.type = "BoolOp"
    THEN "BoolOp(op=And(), values=[" \o JoinDump(expr.values, 1) \o "])"
    ELSE ""

----------------------------------------------------------------------------
(* The analyzer: constructor, docstring helper and the three detectors.    *)
(* A detector call returns [raised, issues]: raised names the exception    *)
(* that ended the call ("" when it returned), issues is the returned list  *)
(* of (line, category, message) tuples.                                    *)

changed_lines_pattern == "result = val + 5"

Returned(issues) == [raised |-> "", issues |-> issues]

Raised(exc) == [raised |-> exc, issues |-> <<>>]

\* CommentQualityAnalyzer.__init__: the object, or the exception it raises
Construct(f, style_guide) ==
    IF ~f.present THEN [raised |-> "FileNotFoundError"]
    ELSE IF ~f.readable THEN [raised |-> "PermissionError"]
    ELSE IF ~Parse(f.lines).ok THEN [raised |-> "SyntaxError"]
    ELSE [raised |-> "",
          style_guide |-> IF DOMAIN style_guide # {} THEN style_guide ELSE <<>>,
          source_code |-> f.lines,
          tree |-> Parse(f.lines).tree]

\* a docstring taken from any constant, a number included
ExtractDocstring_AnyConstant(node) ==
    IF /\ node.body # <<>>
       /\ node.body[1].type = "Expr"
       /\ node.body[1].value.type = "Constant"
    THEN node.body[1].value.value
    ELSE ""

\* _extract_docstring
ExtractDocstring(node) ==
    IF /\ node.body # <<>>
       /\ node.body[1].type = "Expr"
       /\ node.body[1].value.type = "Constant"
       /\ node.body[1].value.kind = "str"
    THEN node.body[1].value.value
    ELSE ""

\* the heuristic with a body of three statements counted as complex
IsComplex_FromThreeStatements(node) ==
    \/ Len(node.body) >= 3
    \/ \E k \in 1..Len(node.body) : node.body[k].type = "If"
    \/ Len(Dump(node.test)) > 100

\* the heuristic of line 81: is this ast.If complex logic
IsComplex(node) ==
    \/ Len(node.body) > 3
    \/ \E k \in 1..Len(node.body) : node.body[k].type = "If"
    \/ Len(Dump(node.test)) > 100

ComplexIssue(node) ==
    <<node.lineno, "complex logic", "Missing comment for complex if statement">>

\* the issue of a function or class without docstring
DocIssue(node) ==
    IF node.type = "ClassDef"
    THEN <<node.lineno, "class", "Missing docstring for class: " \o node.name>>
    ELSE <<node.lineno, "function",
           "Missing docstring for function: " \o node.name>>

\* the line above taken as it is, not trimmed
PrecededByComment_Untrimmed(lines, node) ==
    StartsWith(lines[node.lineno - 1], "#")

\* lines 87-88: is the line above the conditional a comment
PrecededByComment(lines, node) ==
    StartsWith(Strip(lines[node.lineno - 1]), "#")

RECURSIVE CheckNodes(_, _, _, _)
\* the loop of check_missing_comments over the walked nodes from index i on,
\* f the file as it is on disk during the call
CheckNodes(nodes, i, f, missing_comments) ==
    IF i > Len(nodes) THEN Returned(missing_comments)
    ELSE
    LET node == nodes[i]
        next(acc) == CheckNodes(nodes, i + 1, f, acc)
    IN  IF node.type \in {"FunctionDef", "AsyncFunctionDef", "ClassDef"}
        THEN IF ExtractDocstring(node) = ""
             THEN next(Append(missing_comments, DocIssue(node)))
             ELSE next(missing_comments)
        ELSE IF node.type = "If" /\ IsComplex(node)
        THEN IF node.lineno > 1
             THEN IF ~f.present THEN Raised("FileNotFoundError")
                  ELSE IF ~f.readable THEN Raised("PermissionError")
                  ELSE IF node.lineno - 1 > Len(f.lines) THEN Raised("IndexError")
                  ELSE IF ~PrecededByComment(f.lines, node)
                  THEN next(Append(missing_comments, ComplexIssue(node)))
                  ELSE next(missing_comments)
             ELSE next(Append(missing_comments, ComplexIssue(node)))
        ELSE next(missing_comments)

\* check_missing_comments
CheckMissingComments(self, f) == CheckNodes(Walk(<<self.tree>>), 1, f, <<>>)

\* the two checks as alternatives: the prefix is checked only when the length
\* is fine
StyleIssues_PrefixOnlyIfLongEnough(style_guide, i, line) ==
    LET comment_text == Strip(AfterFirst(line, "#"))
    IN  IF /\ "min_length" \in DOMAIN style_guide
           /\ Len(comment_text) < style_guide["min_length"]
        THEN << <<i, "length",
                  "Comment is too short (min length: "
                  \o ToString(style_guide["min_length"]) \o ")">> >>
        ELSE IF /\ "required_prefix" \in DOMAIN style_guide
                /\ ~StartsWith(comment_text, style_guide["required_prefix"])
        THEN << <<i, "prefix",
                  "Comment does not start with required prefix: "
                  \o style_guide["required_prefix"]>> >>
        ELSE <<>>

\* the issues of one comment line under the style guide (lines 115-123)
StyleIssues(style_guide, i, line) ==
    LET comment_text == Strip(AfterFirst(line, "#"))
    IN  (IF /\ "min_length" \in DOMAIN style_guide
            /\ Len(comment_text) < style_guide["min_length"]
         THEN << <<i, "length",
                   "Comment is too short (min length: "
                   \o ToString(style_guide["min_length"]) \o ")">> >>
         ELSE <<>>)
        \o
        (IF /\ "required_prefix" \in DOMAIN style_guide
            /\ ~StartsWith(comment_text, style_guide["required_prefix"])
         THEN << <<i, "prefix",
                   "Comment does not start with required prefix: "
                   \o style_guide["required_prefix"]>> >>
         ELSE <<>>)

RECURSIVE StyleLines(_, _, _)
\* the loop of enforce_comment_style_consistency over the lines from i on
StyleLines(style_guide, lines, i) ==
    IF i > Len(lines) THEN <<>>
    ELSE (IF StartsWith(Strip(RStrip(lines[i])), "#")
          THEN StyleIssues(style_guide, i, RStrip(lines[i]))
          ELSE <<>>)
         \o StyleLines(style_guide, lines, i + 1)

\* enforce_comment_style_consistency
EnforceCommentStyleConsistency(self, f) ==
    IF DOMAIN self.style_guide = {} THEN Returned(<<>>)
    ELSE IF ~f.present THEN Raised("FileNotFoundError")
    ELSE IF ~f.readable THEN Raised("PermissionError")
    ELSE Returned(StyleLines(self.style_guide, f.lines, 1))

RECURSIVE FirstMention_OfAnyLength(_, _, _)
\* the first word of the changed line that occurs in check_line, however short
FirstMention_OfAnyLength(words, k, check_line) ==
    IF k > Len(words) THEN ""
    ELSE IF Contains(check_line, words[k])
    THEN words[k]
    ELSE FirstMention_OfAnyLength(words, k + 1, check_line)

RECURSIVE FirstMention(_, _, _)
\* the loop of lines 156-159: the first word of the changed line, from index
\* k on, that is longer than 2 characters and occurs in check_line ("": none)
FirstMention(words, k, check_line) ==
    IF k > Len(words) THEN ""
    ELSE IF Contains(check_line, words[k]) /\ Len(words[k]) > 2
    THEN words[k]
    ELSE FirstMention(words, k + 1, check_line)

OutdatedIssue(line_num, var) ==
    <<line_num, "outdated",
      "Possible outdated comment near changed line. Comment might be related to variable: "
      \o var>>

\* range(start, stop) as the sequence it iterates over
range(start, stop) == [k \in 1..(stop - start) |-> start + k - 1]

\* a window that leaves out its last offset
Window_WithoutLastOffset == range(-3, 3)

\* a window that leaves out the changed line itself
Window_WithoutChangedLine == range(-3, 0) \o range(1, 4)

\* line 150: the offsets of the window around a changed line
Window == range(-3, 4)

RECURSIVE OutdatedWindow(_, _, _)
\* the loop over offset (line 150) for the changed line at 0-based index i,
\* from the k-th offset of the window on
OutdatedWindow(lines, i, k) ==
    IF k > Len(Window) THEN <<>>
    ELSE
    LET check_line_num == i + Window[k]
        check_line == Strip(lines[check_line_num + 1])
        var == FirstMention(FindAllWords(lines[i + 1], 1), 1, check_line)
    IN  (IF /\ 0 <= check_line_num /\ check_line_num < Len(lines)
            /\ StartsWith(check_line, "#")
            /\ var # ""
         THEN <<OutdatedIssue(check_line_num + 1, var)>>
         ELSE <<>>)
        \o OutdatedWindow(lines, i, k + 1)

RECURSIVE OutdatedLines(_, _)
\* the loop over the lines (line 147) from 0-based index i on
OutdatedLines(lines, i) ==
    IF i >= Len(lines) THEN <<>>
    ELSE (IF Contains(lines[i + 1], changed_lines_pattern)
          THEN OutdatedWindow(lines, i, 1)
          ELSE <<>>)
         \o OutdatedLines(lines, i + 1)

\* identify_outdated_comments
IdentifyOutdatedComments(self, f) ==
    IF ~f.present THEN Raised("FileNotFoundError")
    ELSE IF ~f.readable THEN Raised("PermissionError")
    ELSE Returned(OutdatedLines(f.lines, 0))

----------------------------------------------------------------------------
(* The state machine: an analyzer object used as a library, the file it    *)
(* was built from changing on disk, and the command line driver main().    *)

\* a file on disk
File(lines) == [present |-> TRUE, readable |-> TRUE, lines |-> lines]

NoFile == [present |-> FALSE, readable |-> FALSE, lines |-> <<>>]

LockedFile(lines) == [present |-> TRUE, readable |-> FALSE, lines |-> lines]

\* all files of at most n lines over the lines of V
FilesOver(V, n) == UNION {[1..k -> V] : k \in 0..n}

NoAnalyzer == [raised |-> "unconstructed"]

NoCall == [op |-> "none", result |-> Returned(<<>>), seen |-> NoFile]

\* the empty dict
NoStyleGuide == <<>>

\* no local variable is bound
NoLocals == <<>>

\* a style guide passed to the constructor directly (no --style-guide file)
Given(style_guide) ==
    [valid |-> TRUE, style_guide |-> "none", state |-> "ok",
     content |-> style_guide]

\* a command line naming a --style-guide file: absent, unreadable, not JSON,
\* or a JSON object
GuideFile(state, content) ==
    [valid |-> TRUE, style_guide |-> "path", state |-> state,
     content |-> content]

\* a command line the argument parser rejects
BadUsage ==
    [valid |-> FALSE, style_guide |-> "none", state |-> "ok",
     content |-> NoStyleGuide]

\* the lines another process may write over the file
EditLines == {"# val", "x = 1"}

\* what the file may become when it is changed on disk: removed, emptied,
\* cut by its last line, a line added on top, a line replaced
Modifications(f) ==
    {NoFile, File(<<>>)}
    \cup {File(SubSeq(f.lines, 1, Len(f.lines) - 1)) : k \in {1} \cap DOMAIN f.lines}
    \cup {File(<<l>> \o f.lines) : l \in EditLines}
    \cup {File([f.lines EXCEPT ![k] = l]) : k \in DOMAIN f.lines, l \in EditLines}

\* analyzer = CommentQualityAnalyzer(filename, style_guide)
New ==
    /\ pc = "library"
    /\ analyzer = NoAnalyzer
    /\ analyzer' = Construct(file, args.content)
    /\ UNCHANGED <<file, args, last, pc, locals, printed, exit_code, modified>>

\* what a detector call leaves behind: its name, its outcome, the file it read
Call(op, result) == [op |-> op, result |-> result, seen |-> file]

\* analyzer.check_missing_comments()
CallCheckMissingComments ==
    /\ pc = "library"
    /\ analyzer.raised = ""
    /\ last' = Call("check_missing_comments",
                    CheckMissingComments(analyzer, file))
    /\ UNCHANGED <<file, args, analyzer, pc, locals, printed, exit_code, modified>>

\* analyzer.enforce_comment_style_consistency()
CallEnforceCommentStyleConsistency ==
    /\ pc = "library"
    /\ analyzer.raised = ""
    /\ last' = Call("enforce_comment_style_consistency",
                    EnforceCommentStyleConsistency(analyzer, file))
    /\ UNCHANGED <<file, args, analyzer, pc, locals, printed, exit_code, modified>>

\* analyzer.identify_outdated_comments()
CallIdentifyOutdatedComments ==
    /\ pc = "library"
    /\ analyzer.raised = ""
    /\ last' = Call("identify_outdated_comments",
                    IdentifyOutdatedComments(analyzer, file))
    /\ UNCHANGED <<file, args, analyzer, pc, locals, printed, exit_code, modified>>

\* another process rewrites, truncates or removes the file after the analyzer
\* was constructed (a detector reads the file as it is when it is called:
\* one change before a call stands for any number of them)
ModifyFile ==
    /\ analyzer.raised = ""
    /\ pc # "exit"
    /\ ~modified
    /\ file.present /\ file.readable
    /\ file' \in Modifications(file) \ {file}
    /\ modified' = TRUE
    /\ UNCHANGED <<args, analyzer, last, pc, locals, printed, exit_code>>

Next ==
    \/ New
    \/ CallCheckMissingComments
    \/ CallEnforceCommentStyleConsistency
    \/ CallIdentifyOutdatedComments
    \/ ModifyFile

\* the detectors applied to a file that stays as it is
CallNext ==
    \/ New
    \/ CallCheckMissingComments
    \/ CallEnforceCommentStyleConsistency
    \/ CallIdentifyOutdatedComments

\* the state before the analyzer is constructed
InitWith(files, guides, start) ==
    /\ file \in files
    /\ args \in guides
    /\ analyzer = NoAnalyzer
    /\ last = NoCall
    /\ pc = start
    /\ locals = NoLocals
    /\ printed = <<>>
    /\ exit_code = -1
    /\ modified = FALSE

----------------------------------------------------------------------------
(* main() (lines 177-229): one action per statement that can end the run.  *)
(* An exception raised in the try block ends in one of the handlers of     *)
(* lines 194-199 and 225-229, all of which exit with code 1.               *)

\* sys.exit(code)
Exit(code) ==
    /\ pc' = "exit"
    /\ exit_code' = code

\* name = value in main
Bind(name, value) == locals' = (name :> value) @@ locals

\* lines 181-185: parser.parse_args() exits with code 2 on a usage error
MainParseArgs ==
    /\ pc = "parse_args"
    /\ IF args.valid
       THEN pc' = "load_guide" /\ UNCHANGED exit_code
       ELSE Exit(2)
    /\ UNCHANGED <<file, args, analyzer, last, locals, printed, modified>>

\* lines 188-199: style_guide = {} or json.load of the --style-guide file
MainLoadStyleGuide ==
    /\ pc = "load_guide"
    /\ IF args.style_guide = "none"
       THEN /\ Bind("style_guide", NoStyleGuide)
            /\ pc' = "construct"
            /\ UNCHANGED exit_code
       ELSE IF args.state = "ok"
       THEN /\ Bind("style_guide", args.content)
            /\ pc' = "construct"
            /\ UNCHANGED exit_code
       ELSE \* "missing": FileNotFoundError (194); "invalid": JSONDecodeError
            \* (197); "unreadable": PermissionError, caught at line 227
            /\ Exit(1)
            /\ UNCHANGED locals
    /\ UNCHANGED <<file, args, analyzer, last, printed, modified>>

\* a constructor failure that ends the run with code 0
MainConstruct_FailureExitsZero ==
    /\ pc = "construct"
    /\ analyzer' = Construct(file, locals.style_guide)
    /\ IF analyzer'.raised = ""
       THEN pc' = "check_missing" /\ UNCHANGED exit_code
       ELSE Exit(0)
    /\ UNCHANGED <<file, args, last, locals, printed, modified>>

\* line 201
MainConstruct ==
    /\ pc = "construct"
    /\ analyzer' = Construct(file, locals.style_guide)
    /\ IF analyzer'.raised = ""
       THEN pc' = "check_missing" /\ UNCHANGED exit_code
       ELSE Exit(1)
    /\ UNCHANGED <<file, args, last, locals, printed, modified>>

\* one of lines 203-205: name = analyzer.detector(); an exception ends the run
MainDetect(name, op, result, then) ==
    /\ last' = Call(op, result)
    /\ IF result.raised = ""
       THEN /\ Bind(name, result.issues)
            /\ pc' = then
            /\ UNCHANGED exit_code
       ELSE Exit(1) /\ UNCHANGED locals
    /\ UNCHANGED <<file, args, analyzer, printed, modified>>

\* the first detector's section printed as soon as the detector returns
MainCheckMissing_PrintsAtOnce ==
    /\ pc = "check_missing"
    /\ last' = Call("check_missing_comments",
                    CheckMissingComments(analyzer, file))
    /\ IF last'.result.raised = ""
       THEN /\ Bind("missing_comments", last'.result.issues)
            /\ printed' = IF last'.result.issues # <<>>
                          THEN printed \o <<"\nMissing Comments:">>
                          ELSE printed
            /\ pc' = "enforce_style"
            /\ UNCHANGED exit_code
       ELSE Exit(1) /\ UNCHANGED <<locals, printed>>
    /\ UNCHANGED <<file, args, analyzer, modified>>

\* line 203
MainCheckMissing ==
    /\ pc = "check_missing"
    /\ MainDetect("missing_comments", "check_missing_comments",
                  CheckMissingComments(analyzer, file), "enforce_style")

\* line 204
MainEnforceStyle ==
    /\ pc = "enforce_style"
    /\ MainDetect("style_violations", "enforce_comment_style_consistency",
                  EnforceCommentStyleConsistency(analyzer, file),
                  "identify_outdated")

\* line 205
MainIdentifyOutdated ==
    /\ pc = "identify_outdated"
    /\ MainDetect("outdated_comments", "identify_outdated_comments",
                  IdentifyOutdatedComments(analyzer, file), "report")

\* one section of the report: its title and a line per issue
Section(title, issues) ==
    IF issues = <<>> THEN <<>>
    ELSE <<title>>
         \o [k \in 1..Len(issues) |->
               "  Line " \o ToString(issues[k][1]) \o ": " \o issues[k][2]
               \o " - " \o issues[k][3]]

\* lines 207-223: what main prints
Report(l) ==
    Section("\nMissing Comments:", l.missing_comments)
    \o Section("\nStyle Violations:", l.style_violations)
    \o Section("\nPossible Outdated Comments:", l.outdated_comments)
    \o (IF /\ l.missing_comments = <<>>
           /\ l.style_violations = <<>>
           /\ l.outdated_comments = <<>>
        THEN <<"No issues found with code comments.">>
        ELSE <<>>)

\* lines 207-223, then the end of main: exit code 0
MainReport ==
    /\ pc = "report"
    /\ printed' = printed \o Report(locals)
    /\ Exit(0)
    /\ UNCHANGED <<file, args, analyzer, last, locals, modified>>

MainNext ==
    \/ MainParseArgs
    \/ MainLoadStyleGuide
    \/ MainConstruct
    \/ MainCheckMissing
    \/ MainEnforceStyle
    \/ MainIdentifyOutdated
    \/ MainReport
    \/ ModifyFile

----------------------------------------------------------------------------
(* The files and style guides the specifications start from.               *)

MaxIfLines == 3

MaxDocLines == 3

MaxStyleLines == 2

MaxStaleLines == 5

MaxMainLines == 2

\* conditionals: simple and complex ones, with and without a comment above;
\* the two long tests dump to 100 and to 101 characters
IfVocabulary ==
    {"  # c", "x = 1",
     "if a: pass; pass; pass", "if a: pass; pass; pass; pass",
     "if a:", "    if a: pass", "    pass",
     "if aaaaaaaaaaaaaaaaaaaaaaaa and b: pass",
     "if aaaaaaaaaaaaaaaaaaaaaaaaa and b: pass"}

\* functions and classes with and without a docstring
DocVocabulary ==
    {"def f():", "async def h():", "class C:", "    def m(): pass",
     "    \"doc\"", "    \"\"", "    pass", "    5"}

\* comment lines of several lengths and prefixes, and lines that are none
StyleVocabulary ==
    {"# ok", "# TODO: fix this", "#", "  #TODO:", "x = 1", "x = 1  # c"}

StyleGuides ==
    {NoStyleGuide, [min_length |-> 2], [required_prefix |-> "TODO:"],
     [min_length |-> 10, required_prefix |-> "TODO:"], [other |-> 1]}

\* changed lines, and comments that mention their words or do not
StaleVocabulary ==
    {"# val", "# 5", "# val of result", "# result = val + 5",
     "result = val + 5"}

MainVocabulary ==
    {"# val", "def f(): pass", "if a: pass; pass; pass; pass",
     "result = val + 5", "  pass"}

MainArgs ==
    {BadUsage, Given(NoStyleGuide),
     GuideFile("missing", NoStyleGuide), GuideFile("invalid", NoStyleGuide),
     GuideFile("unreadable", NoStyleGuide),
     GuideFile("ok", NoStyleGuide), GuideFile("ok", [min_length |-> 10])}

\* the analyzer over conditionals, the file changing on disk
Init ==
    InitWith({File(l) : l \in FilesOver(IfVocabulary, MaxIfLines)},
             {Given([min_length |-> 3])}, "library")

Spec == Init /\ [][Next]_vars

\* the analyzer over functions and classes, the file changing on disk
DocInit ==
    InitWith({File(l) : l \in FilesOver(DocVocabulary, MaxDocLines)},
             {Given(NoStyleGuide)}, "library")

DocSpec == DocInit /\ [][Next]_vars

StyleInit ==
    InitWith({File(l) : l \in FilesOver(StyleVocabulary, MaxStyleLines)},
             {Given(g) : g \in StyleGuides}, "library")

StyleSpec == StyleInit /\ [][CallNext]_vars

StaleInit ==
    InitWith({File(l) : l \in FilesOver(StaleVocabulary, MaxStaleLines)},
             {Given(NoStyleGuide)}, "library")

StaleSpec == StaleInit /\ [][CallNext]_vars

\* a run of main()
MainInit ==
    InitWith({NoFile, LockedFile(<<"x = 1">>)}
             \cup {File(l) : l \in FilesOver(MainVocabulary, MaxMainLines)},
             MainArgs, "parse_args")

MainSpec == MainInit /\ [][MainNext]_vars

----------------------------------------------------------------------------
(* Vocabulary of the properties: what a file and a tree contain, and what  *)
(* a returned list holds, stated on their own terms.                       *)

RECURSIVE Descendants(_)
\* a node and every node below it
Descendants(node) ==
    {node} \cup UNION {Descendants(node.body[k]) : k \in DOMAIN node.body}

IsDefinition(n) == n.type \in {"FunctionDef", "AsyncFunctionDef", "ClassDef"}

FirstIsStringLiteral(n) ==
    /\ n.body # <<>>
    /\ n.body[1].type = "Expr"
    /\ n.body[1].value.type = "Constant"
    /\ n.body[1].value.kind = "str"

HasDocstringText(n) == FirstIsStringLiteral(n) /\ n.body[1].value.value # ""

\* the missing-documentation issues of a list that are about definition n
DocIssuesFor(issues, n) ==
    {k \in DOMAIN issues :
        issues[k][1] = n.lineno /\ issues[k][2] \in {"function", "class"}}

\* exactly one issue is about n; it has n's category and its message names n
OneIssueNaming(issues, n) ==
    /\ Cardinality(DocIssuesFor(issues, n)) = 1
    /\ \A k \in DocIssuesFor(issues, n) :
          /\ issues[k][2] = IF n.type = "ClassDef" THEN "class" ELSE "function"
          /\ StartsWith(issues[k][3], "Missing docstring for ")
          /\ EndsWith(issues[k][3], ": " \o n.name)

RemoveLine(lines, k) == SubSeq(lines, 1, k - 1) \o SubSeq(lines, k + 1, Len(lines))

\* what check_missing_comments returns for a file of these lines
MissingIn(lines) ==
    CheckMissingComments(Construct(File(lines), NoStyleGuide), File(lines)).issues

\* the definition that starts at the line of n in the tree parsed from lines
SameDefinitionIn(lines, n) ==
    CHOOSE m \in Descendants(Parse(lines).tree) :
        IsDefinition(m) /\ m.lineno = n.lineno /\ m.name = n.name

\* the docstring of n stands on a line of its own and the file still parses
\* when that line is taken out
DocstringRemovable(lines, n) ==
    /\ FirstIsStringLiteral(n)
    /\ n.body[1].lineno # n.lineno
    /\ Parse(RemoveLine(lines, n.body[1].lineno)).ok

CheckedMissing == last.op = "check_missing_comments" /\ last.result.raised = ""

\* C1 as stated: any string literal as first statement silences the issue, and
\* taking it out brings exactly one issue.
C1_AnyStringLiteralIsADocstring ==
    CheckedMissing =>
        \A n \in Descendants(analyzer.tree) :
            IsDefinition(n) /\ FirstIsStringLiteral(n) =>
                /\ DocIssuesFor(last.result.issues, n) = {}
                /\ DocstringRemovable(analyzer.source_code, n) =>
                     OneIssueNaming(
                        MissingIn(RemoveLine(analyzer.source_code,
                                             n.body[1].lineno)), n)

\* C1, amended: a function (sync or async) or class whose first body statement
\* is a string literal that is not empty yields no missing-documentation issue
\* for that node; every other function or class (first statement no string
\* literal, or the empty string "") yields exactly one issue, of category
\* "function" resp. "class", at the definition's line, whose message names it.
\* Hence the same definition with its docstring statement removed yields
\* exactly one such issue unless the statement that follows is itself a string
\* literal that is not empty.
C1_DocstringTextDecidesTheIssue ==
    CheckedMissing =>
        \A n \in Descendants(analyzer.tree) :
            IsDefinition(n) =>
                /\ IF HasDocstringText(n)
                   THEN DocIssuesFor(last.result.issues, n) = {}
                   ELSE OneIssueNaming(last.result.issues, n)
                /\ DocstringRemovable(analyzer.source_code, n) =>
                     LET without == RemoveLine(analyzer.source_code,
                                               n.body[1].lineno)
                     IN  IF HasDocstringText(SameDefinitionIn(without, n))
                         THEN DocIssuesFor(MissingIn(without), n) = {}
                         ELSE OneIssueNaming(MissingIn(without), n)

\* a function with a docstring was checked and raised no issue, and the same
\* function without that line raises one
C1_Witness ==
    /\ CheckedMissing
    /\ \E n \in Descendants(analyzer.tree) :
          /\ IsDefinition(n) /\ HasDocstringText(n)
          /\ DocstringRemovable(analyzer.source_code, n)
          /\ DocIssuesFor(last.result.issues, n) = {}
          /\ OneIssueNaming(
                MissingIn(RemoveLine(analyzer.source_code, n.body[1].lineno)), n)

IsCommentLine(line) == StartsWith(Strip(line), "#")

\* the three conditions of the claim, with the numbers of the claim
IsSimpleIf(n) ==
    /\ n.type = "If"
    /\ Len(n.body) <= 3
    /\ \A k \in DOMAIN n.body : n.body[k].type # "If"
    /\ Len(Dump(n.test)) <= 100

IsComplexIf(n) == n.type = "If" /\ ~IsSimpleIf(n)

ComplexIssuesAt(issues, line) ==
    {k \in DOMAIN issues : issues[k][1] = line /\ issues[k][2] = "complex logic"}

\* C2: an if with at most 3 body statements, no if among them and a test whose
\* dump is at most 100 characters long never gets a "complex logic" issue,
\* whatever the line above it is.
C2_SimpleIfIsNeverComplexLogic ==
    last.op = "check_missing_comments" =>
        \A n \in Descendants(analyzer.tree) :
            IsSimpleIf(n) => ComplexIssuesAt(last.result.issues, n.lineno) = {}

\* a conditional at the limit of 3 statements, below a line that is no comment,
\* was checked
C2_Witness ==
    /\ CheckedMissing
    /\ \E n \in Descendants(analyzer.tree) :
          /\ IsSimpleIf(n) /\ Len(n.body) = 3
          /\ n.lineno > 1
          /\ ~IsCommentLine(last.seen.lines[n.lineno - 1])
    /\ \E n \in Descendants(analyzer.tree) :
          IsSimpleIf(n) /\ Len(Dump(n.test)) = 100

\* C3: in the list check_missing_comments returns, a complex conditional
\* declared at line L has its "complex logic" issue when L = 1, and when L > 1
\* exactly when the trimmed text of line L-1, as read from the file during the
\* call, does not start with '#'; it never has more than one.
C3_ComplexIfFlaggedUnlessCommentAbove ==
    CheckedMissing =>
        \A n \in Descendants(analyzer.tree) :
            IsComplexIf(n) =>
                Cardinality(ComplexIssuesAt(last.result.issues, n.lineno))
                  = IF n.lineno = 1 \/ ~IsCommentLine(last.seen.lines[n.lineno - 1])
                    THEN 1 ELSE 0

\* a complex conditional below a comment got no issue and another one below a
\* line of code got one
C3_Witness ==
    /\ CheckedMissing
    /\ \E n \in Descendants(analyzer.tree) :
          /\ IsComplexIf(n) /\ n.lineno > 1
          /\ IsCommentLine(last.seen.lines[n.lineno - 1])
          /\ ComplexIssuesAt(last.result.issues, n.lineno) = {}
    /\ \E n \in Descendants(analyzer.tree) :
          /\ IsComplexIf(n) /\ n.lineno > 1
          /\ ~IsCommentLine(last.seen.lines[n.lineno - 1])
          /\ Cardinality(ComplexIssuesAt(last.result.issues, n.lineno)) = 1

\* what a detector returns when it reads the file as it was at construction
FromSnapshot(op) ==
    LET snapshot == File(analyzer.source_code)
    IN  IF op = "check_missing_comments"
            THEN CheckMissingComments(analyzer, snapshot)
        ELSE IF op = "enforce_comment_style_consistency"
            THEN EnforceCommentStyleConsistency(analyzer, snapshot)
        ELSE IdentifyOutdatedComments(analyzer, snapshot)

\* C8: whatever happens to the file once the analyzer is constructed, the list
\* a detector returns is the one the file contents read at construction and
\* the style guide determine.
C8_ResultsComeFromTheSnapshot ==
    last.op # "none" /\ last.result.raised = "" =>
        last.result = FromSnapshot(last.op)

\* the comment body the style rules are about: the trimmed text after the
\* first '#' of a comment line
CommentBody(line) == Strip(AfterFirst(Strip(line), "#"))

IssuesAt(issues, line, category) ==
    {k \in DOMAIN issues : issues[k][1] = line /\ issues[k][2] = category}

CheckedStyle ==
    last.op = "enforce_comment_style_consistency" /\ last.result.raised = ""

\* C4: per physical line k the two checks are independent and additive: one
\* "length" issue iff the line is a comment line, min_length is configured and
\* its body is shorter than min_length; one "prefix" issue iff it is a comment
\* line, required_prefix is configured and its body does not start with it.
\* Nothing else is reported, and the empty style guide yields the empty list.
C4_StyleChecksAreIndependentAndAdditive ==
    CheckedStyle =>
        LET style_guide == analyzer.style_guide
            lines  == last.seen.lines
            issues == last.result.issues
        IN  /\ \A k \in DOMAIN lines :
                /\ Cardinality(IssuesAt(issues, k, "length"))
                     = IF /\ IsCommentLine(lines[k])
                          /\ "min_length" \in DOMAIN style_guide
                          /\ Len(CommentBody(lines[k])) < style_guide.min_length
                       THEN 1 ELSE 0
                /\ Cardinality(IssuesAt(issues, k, "prefix"))
                     = IF /\ IsCommentLine(lines[k])
                          /\ "required_prefix" \in DOMAIN style_guide
                          /\ ~StartsWith(CommentBody(lines[k]),
                                         style_guide.required_prefix)
                       THEN 1 ELSE 0
            /\ \A m \in DOMAIN issues :
                /\ issues[m][1] \in DOMAIN lines
                /\ issues[m][2] \in {"length", "prefix"}
            /\ DOMAIN style_guide = {} => issues = <<>>

\* under a guide with both options one comment line got both issues and
\* another comment line got none
C4_Witness ==
    /\ CheckedStyle
    /\ DOMAIN analyzer.style_guide = {"min_length", "required_prefix"}
    /\ \E k \in DOMAIN last.seen.lines :
          /\ IssuesAt(last.result.issues, k, "length") # {}
          /\ IssuesAt(last.result.issues, k, "prefix") # {}
    /\ \E k \in DOMAIN last.seen.lines :
          /\ IsCommentLine(last.seen.lines[k])
          /\ \A m \in DOMAIN last.result.issues : last.result.issues[m][1] # k

\* line i is a changed line: the trigger text occurs in it
IsChangedLine(line) == Contains(line, "result = val + 5")

\* the positions of the words that are longer than 2 characters and occur in
\* text
SharedAmong(words, text) ==
    {k \in DOMAIN words : Len(words[k]) > 2 /\ Contains(text, words[k])}

\* the positions of the words of line i, longer than 2 characters, that occur
\* in line j
SharedWords(lines, i, j) == SharedAmong(FindAllWords(lines[i], 1), lines[j])

Least(S) == CHOOSE k \in S : \A k2 \in S : k <= k2

\* the first of them, in the order of line i
FirstSharedWord(lines, i, j) ==
    FindAllWords(lines[i], 1)[Least(SharedWords(lines, i, j))]

InWindow(i, j) == i - 3 <= j /\ j <= i + 3

\* the pairs (changed line i, comment line j in its window that shares a word)
StalePairs(lines) ==
    UNION {{<<i, j>> : j \in {j \in DOMAIN lines :
                                /\ InWindow(i, j)
                                /\ IsCommentLine(lines[j])
                                /\ SharedWords(lines, i, j) # {}}} :
           i \in {i \in DOMAIN lines : IsChangedLine(lines[i])}}

\* the issue that reports comment line j for the word var
Outdated(j, var) ==
    <<j, "outdated",
      "Possible outdated comment near changed line. Comment might be related to variable: "
      \o var>>

CheckedOutdated ==
    last.op = "identify_outdated_comments" /\ last.result.raised = ""

\* C9: the returned list holds exactly one issue per pair of a changed line i
\* and a comment line j in the window [i-3, i+3] that contains a word of line i
\* longer than 2 characters; the issue is at line j and names the first such
\* word in the order of line i. It holds nothing else: no issue for a line
\* outside every window, for a line that is no comment, or without such a word.
C9_OneIssuePerChangedLineAndCommentInWindow ==
    CheckedOutdated =>
        LET lines  == last.seen.lines
            issues == last.result.issues
        IN  \A due \in {[p \in StalePairs(lines) |->
                          Outdated(p[2], FirstSharedWord(lines, p[1], p[2]))]} :
                /\ Len(issues) = Cardinality(DOMAIN due)
                /\ \A p \in DOMAIN due :
                      Cardinality({m \in DOMAIN issues : issues[m] = due[p]})
                      = Cardinality({q \in DOMAIN due : due[q] = due[p]})

\* a comment four lines from the changed line went unreported although it
\* mentions val, and a comment inside the window was reported
C9_Witness ==
    /\ CheckedOutdated
    /\ \E i, j \in DOMAIN last.seen.lines :
          /\ IsChangedLine(last.seen.lines[i])
          /\ j = i - 4
          /\ IsCommentLine(last.seen.lines[j])
          /\ Contains(last.seen.lines[j], "val")
          /\ \A m \in DOMAIN last.result.issues : last.result.issues[m][1] # j
    /\ last.result.issues # <<>>

\* C10: a comment line that itself contains the trigger text is reported as
\* outdated at its own line.
C10_CommentHoldingTheTriggerReportsItself ==
    CheckedOutdated =>
        \A j \in DOMAIN last.seen.lines :
            IsCommentLine(last.seen.lines[j]) /\ IsChangedLine(last.seen.lines[j])
                => IssuesAt(last.result.issues, j, "outdated") # {}

\* the only comment of the file holds the trigger text, no line of code does,
\* and it was reported
C10_Witness ==
    /\ CheckedOutdated
    /\ Len(last.seen.lines) >= 2
    /\ \E j \in DOMAIN last.seen.lines :
          /\ IsCommentLine(last.seen.lines[j]) /\ IsChangedLine(last.seen.lines[j])
          /\ IssuesAt(last.result.issues, j, "outdated") # {}
          /\ \A k \in DOMAIN last.seen.lines \ {j} :
                ~IsCommentLine(last.seen.lines[k])

\* line i is the only changed line whose window holds line j
OnlyChangedLineNear(lines, i, j) ==
    \A i2 \in DOMAIN lines \ {i} : ~(IsChangedLine(lines[i2]) /\ InWindow(i2, j))

\* C5 as stated, read for a changed line that is the only one within three
\* lines of the comment: a comment three lines above it that mentions val
\* yields exactly one issue, at its line, citing val; a comment there that
\* mentions none of the words of the changed line yields none.
C5_CommentThreeAboveCitesVal ==
    CheckedOutdated =>
        LET lines  == last.seen.lines
            issues == last.result.issues
        IN  \A i \in DOMAIN lines :
                (/\ i - 3 \in DOMAIN lines
                 /\ IsChangedLine(lines[i])
                 /\ IsCommentLine(lines[i - 3])
                 /\ OnlyChangedLineNear(lines, i, i - 3))
                => /\ Contains(lines[i - 3], "val") =>
                        /\ Cardinality(IssuesAt(issues, i - 3, "outdated")) = 1
                        /\ \A m \in IssuesAt(issues, i - 3, "outdated") :
                              issues[m] = Outdated(i - 3, "val")
                   /\ (\A k \in DOMAIN FindAllWords(lines[i], 1) :
                          ~Contains(lines[i - 3], FindAllWords(lines[i], 1)[k]))
                      => IssuesAt(issues, i - 3, "outdated") = {}

\* C5, amended: when the line containing `result = val + 5` is the only changed
\* line within three lines of the comment three lines above it, that comment
\* yields exactly one "outdated" issue, at its own line, if it contains a word
\* of the changed line longer than 2 characters, and the issue cites the first
\* such word in the order of the changed line: `val` only if no earlier word
\* of the changed line (`result`, for the line `result = val + 5`) occurs in
\* the comment. A comment that contains no such word yields no issue.
C5_CommentThreeAboveCitesFirstSharedWord ==
    CheckedOutdated =>
        LET lines  == last.seen.lines
            issues == last.result.issues
        IN  \A i \in DOMAIN lines :
                (/\ i - 3 \in DOMAIN lines
                 /\ IsChangedLine(lines[i])
                 /\ IsCommentLine(lines[i - 3])
                 /\ OnlyChangedLineNear(lines, i, i - 3))
                => IF SharedWords(lines, i, i - 3) # {}
                   THEN /\ Cardinality(IssuesAt(issues, i - 3, "outdated")) = 1
                        /\ \A m \in IssuesAt(issues, i - 3, "outdated") :
                              /\ issues[m] = Outdated(i - 3,
                                                FirstSharedWord(lines, i, i - 3))
                              /\ (/\ Strip(lines[i]) = "result = val + 5"
                                  /\ Contains(lines[i - 3], "val"))
                                 => issues[m] = Outdated(i - 3,
                                       IF Contains(lines[i - 3], "result")
                                       THEN "result" ELSE "val")
                   ELSE IssuesAt(issues, i - 3, "outdated") = {}

\* a comment mentioning val, three lines above the only changed line, was
\* reported once, citing val
C5_Witness ==
    /\ CheckedOutdated
    /\ \E i \in DOMAIN last.seen.lines :
          /\ i - 3 \in DOMAIN last.seen.lines
          /\ Strip(last.seen.lines[i]) = "result = val + 5"
          /\ IsCommentLine(last.seen.lines[i - 3])
          /\ OnlyChangedLineNear(last.seen.lines, i, i - 3)
          /\ Contains(last.seen.lines[i - 3], "val")
          /\ ~Contains(last.seen.lines[i - 3], "result")
          /\ Cardinality(IssuesAt(last.result.issues, i - 3, "outdated")) = 1
          /\ \A m \in IssuesAt(last.result.issues, i - 3, "outdated") :
                last.result.issues[m] = Outdated(i - 3, "val")

\* the run of main is over
Exited == pc = "exit"

\* the target file could not be opened when the analyzer was constructed
TargetUnavailable ==
    analyzer.raised \in {"FileNotFoundError", "PermissionError"}

\* the constructor or a detector raised
ConstructionOrAnalysisFailed ==
    analyzer.raised \notin {"", "unconstructed"} \/ last.result.raised # ""

GuideRequested == args.style_guide # "none"

\* C6 as stated: the run exits with code 1 when the target file is missing or
\* unreadable, a requested style-guide file is missing, the style-guide content
\* is malformed, or construction or analysis failed; every other run exits
\* with code 0.
C6_ExitOneOnTheListedFailuresElseZero ==
    Exited =>
        exit_code = IF \/ TargetUnavailable
                       \/ GuideRequested /\ args.state = "missing"
                       \/ GuideRequested /\ args.state = "invalid"
                       \/ ConstructionOrAnalysisFailed
                    THEN 1 ELSE 0

\* C6, amended: a run whose command line the argument parser rejects exits
\* with code 2. A run whose command line is accepted exits with code 1 when a
\* requested style-guide file is missing, unreadable or not valid JSON, when
\* the target file is missing, unreadable or does not parse, or when a detector
\* raises; it exits with code 0 in every other case, whether or not an issue
\* was found.
C6_ExitTwoOnUsageOneOnFailureElseZero ==
    Exited =>
        exit_code = IF ~args.valid THEN 2
                    ELSE IF \/ GuideRequested /\ args.state # "ok"
                            \/ ConstructionOrAnalysisFailed
                    THEN 1 ELSE 0

\* a run exited with 1 because the style-guide file was unreadable, the
\* target file being fine
C6_Witness ==
    /\ Exited
    /\ args.valid /\ GuideRequested /\ args.state = "unreadable"
    /\ file.present /\ file.readable /\ Parse(file.lines).ok
    /\ exit_code = 1

Results == {"missing_comments", "style_violations", "outdated_comments"}

\* C7: nothing is printed before the style guide is loaded, the analyzer is
\* constructed and the three detectors have returned; a run that exits with
\* code 1 has printed nothing.
C7_NoResultIsPrintedBeforeAllDetectorsReturned ==
    /\ printed # <<>> =>
          /\ {"style_guide"} \cup Results \subseteq DOMAIN locals
          /\ analyzer.raised = ""
          /\ last.op = "identify_outdated_comments" /\ last.result.raised = ""
    /\ Exited /\ exit_code = 1 => printed = <<>>

\* a run failed after a detector had returned issues, and printed none of them
C7_Witness ==
    /\ Exited /\ exit_code = 1
    /\ "missing_comments" \in DOMAIN locals
    /\ locals.missing_comments # <<>>
    /\ printed = <<>>

====
